---- MODULE Spec2Model ----
(***************************************************************************)
(* The directory-mirroring batch pipeline of video-compression-script.py   *)
(* and video-crop-script.py: process_directory walks an input tree,        *)
(* mirrors its directories into an output tree, runs the external tools    *)
(* on every file whose name matches a video extension and keeps running    *)
(* statistics.  The external tools (ffprobe, ffmpeg) and the file system   *)
(* are the environment: every invocation's outcome is chosen               *)
(* nondeterministically among the outcomes the tool can produce.           *)
(***************************************************************************)
EXTENDS Integers, Sequences, FiniteSets, TLC

(* ------------------------------------------------------------------ *)
(* Bounds of the model                                                *)
(* ------------------------------------------------------------------ *)
\* most files an input tree holds
MaxFiles == 3
\* most files of a tree that is processed a second time
MaxRerunFiles == 1
\* most files of a tree that two workers process concurrently
MaxConcFiles == 1
\* number of worker identities (the sequential specification uses worker 1)
NumWorkers == 2

Workers == 1..NumWorkers

(* ------------------------------------------------------------------ *)
(* Strings: a file name is a sequence of characters                   *)
(* ------------------------------------------------------------------ *)
UpperChars == <<"A","B","C","D","E","F","G","H","I","J","K","L","M",
                "N","O","P","Q","R","S","T","U","V","W","X","Y","Z">>
LowerChars == <<"a","b","c","d","e","f","g","h","i","j","k","l","m",
                "n","o","p","q","r","s","t","u","v","w","x","y","z">>

\* str.lower() on one character
LowerChar(c) ==
    IF \E i \in DOMAIN UpperChars : UpperChars[i] = c
    THEN LowerChars[CHOOSE i \in DOMAIN UpperChars : UpperChars[i] = c]
    ELSE c

\* str.lower()
Lower(s) == [i \in DOMAIN s |-> LowerChar(s[i])]

\* str.endswith(suffix)
EndsWith(s, suffix) ==
    /\ Len(s) >= Len(suffix)
    /\ SubSeq(s, Len(s) - Len(suffix) + 1, Len(s)) = suffix

\* the default video_extensions list
video_extensions ==
    << <<".","m","p","4">>, <<".","m","k","v">>, <<".","a","v","i">>,
       <<".","m","o","v">>, <<".","w","m","v">>, <<".","f","l","v">>,
       <<".","w","e","b","m">> >>

\* any(file.lower().endswith(ext) for ext in video_extensions), as a mutant
\* that forgets lower()
IsVideo_caseSensitive(file) ==
    \E i \in DOMAIN video_extensions : EndsWith(file, video_extensions[i])

\* any(file.lower().endswith(ext) for ext in video_extensions)
IsVideo(file) ==
    \E i \in DOMAIN video_extensions : EndsWith(Lower(file), video_extensions[i])

(* ------------------------------------------------------------------ *)
(* The input tree                                                     *)
(* ------------------------------------------------------------------ *)
\* the configured MAX_DURATION
MAX_DURATION == 7

\* The files an input tree is drawn from.  dur is the duration ffprobe
\* reports when it succeeds, size the size in MB, broken a directory entry
\* whose target cannot be read (a dangling symbolic link): os.walk lists
\* it, os.path.getsize raises on it and both tools fail on it.
Catalogue ==
    << [name |-> <<"1",".","m","p","4">>, dur |-> 5,  size |-> 4, broken |-> FALSE],
       [name |-> <<"2",".","M","P","4">>, dur |-> 12, size |-> 6, broken |-> FALSE],
       [name |-> <<"3",".","m","o","v">>, dur |-> 3,  size |-> 2, broken |-> FALSE],
       [name |-> <<"n",".","t","x","t">>, dur |-> 9,  size |-> 1, broken |-> FALSE],
       [name |-> <<"4",".","m","k","v">>, dur |-> 9,  size |-> 5, broken |-> TRUE],
       [name |-> <<"5",".","a","v","i">>, dur |-> 7,  size |-> 3, broken |-> FALSE] >>

\* the directories of the input tree, in the order os.walk (top-down) yields
\* them; a directory is its path relative to base_dir, <<>> being base_dir
WalkDirs == << <<>>, <<"A">>, <<"B">> >>

NumDirs == Len(WalkDirs)

\* k consecutive catalogue files, starting after offset off
Window(off, k) ==
    [i \in 1..k |-> Catalogue[((off + i - 1) % Len(Catalogue)) + 1]]

\* the k files of win laid out over the directories: i in the first, the
\* next j - i in the second, the rest in the third
Layout(win, i, j) ==
    << SubSeq(win, 1, i), SubSeq(win, i + 1, j), SubSeq(win, j + 1, Len(win)) >>

Trees(maxk) ==
    { Layout(Window(c[1], c[2]), c[3], c[4]) :
        c \in { d \in (0..(Len(Catalogue) - 1)) \X (0..maxk) \X (0..maxk) \X (0..maxk) :
                    d[3] <= d[4] /\ d[4] <= d[2] } }

\* number of files of a tree
NumFiles(t) == Len(t[1]) + Len(t[2]) + Len(t[3])

\* Path(root) / file and current_output_dir / file: a file is named by the
\* relative path of its directory and its name
FilePath(dir, name) == [dir |-> dir, name |-> name]

\* os.path.relpath(root, base_dir): "." for base_dir itself
Dot == <<".">>
RelPath(dir) == IF dir = <<>> THEN Dot ELSE dir

\* output_dir_path / rel_path, relative to the output root
OutputDirOf(rel_path) == IF rel_path = Dot THEN <<>> ELSE rel_path

\* the proper ancestors of a directory and the directory itself
WithParents(dir) == { SubSeq(dir, 1, n) : n \in 0..Len(dir) }

(* ------------------------------------------------------------------ *)
(* The file system of the output tree                                 *)
(* ------------------------------------------------------------------ *)
\* An output file: where it is, what wrote it (mode), its size, whether the
\* tool finished writing it (whole), and who wrote it last (stamp).
Exists(files, path) == \E e \in files : e.path = path

Entry(files, path) == CHOOSE e \in files : e.path = path

WriteFile(files, path, mode, size, whole, stamp) ==
    { e \in files : e.path # path }
        \cup { [path |-> path, mode |-> mode, size |-> size, whole |-> whole,
                stamp |-> stamp] }

\* the content of the output tree, without the modification stamps
Content(files) ==
    { [path |-> e.path, mode |-> e.mode, size |-> e.size, whole |-> e.whole] :
        e \in files }

(* ------------------------------------------------------------------ *)
(* The external tools                                                 *)
(* ------------------------------------------------------------------ *)
\* what get_video_duration returns for "no duration"
None == -1

\* outcomes of one ffprobe invocation: a duration is printed, the exit status
\* is not zero, or the output is not a number
ProbeOutcomes(f) == IF f.broken THEN {"exit1"} ELSE {"ok", "exit1", "garbled"}

\* outcomes of one ffmpeg invocation on a readable input: it exits 0 having
\* written the output, it fails before opening the output, or it fails
\* leaving a truncated output
ToolOutcomes == {"ok", "fail", "partial"}

\* the '-y' flag of every ffmpeg command, as a mutant that leaves it out
OverwriteFlag_missing == FALSE

\* the '-y' flag of every ffmpeg command
OverwriteFlag == TRUE

\* the size of what ffmpeg writes: a stream copy keeps the size, a cut is
\* smaller, a re-encoding is smaller or larger (grow)
ToolOutputSize(mode, f, grow) ==
    CASE mode = "copy" -> f.size
      [] mode = "cut"  -> f.size - 1
      [] OTHER         -> IF grow THEN f.size + 1 ELSE f.size - 1

\* subprocess.run of an ffmpeg command: the return code and the output tree
\* it leaves.  ffmpeg fails without writing when the input cannot be read,
\* when the output directory does not exist, and when the output exists and
\* '-y' is not given.
RunFfmpeg(files, dirs, cmd, outcome, grow, stamp) ==
    IF \/ cmd.input.broken
       \/ cmd.output.dir \notin dirs
       \/ (Exists(files, cmd.output) /\ ~cmd.overwrite)
       \/ outcome = "fail"
    THEN [returncode |-> 1, files |-> files]
    ELSE IF outcome = "partial"
    THEN [returncode |-> 1,
          files |-> WriteFile(files, cmd.output, cmd.mode, 0, FALSE, stamp)]
    ELSE [returncode |-> 0,
          files |-> WriteFile(files, cmd.output, cmd.mode,
                              ToolOutputSize(cmd.mode, cmd.input, grow), TRUE, stamp)]

\* os.path.getsize raises when the file cannot be read
GetSizeRaises_input(f) == f.broken
GetSizeRaises_output(files, path) == ~Exists(files, path)

\* whether an ffprobe run gave a duration
Verdict(outcome) == IF outcome = "ok" THEN "ok" ELSE "fail"

\* get_video_duration: None on a non-zero exit and on any exception
get_video_duration(f, outcome) ==
    IF outcome = "ok" THEN f.dur ELSE None

(* ------------------------------------------------------------------ *)
(* crop_video and compress_video                                      *)
(* ------------------------------------------------------------------ *)
\* "if duration <= max_duration" written with <, a mutant
ChooseMode_strict(duration, max_duration) ==
    IF duration < max_duration THEN "copy" ELSE "cut"

\* crop_video's choice of command: a stream copy of the whole file, or a cut
\* at max_duration
ChooseMode(duration, max_duration) ==
    IF duration <= max_duration THEN "copy" ELSE "cut"

\* the ffmpeg command line, with what the run of it returned
Command(f, dir, output_path, mode) ==
    [tool |-> "ffmpeg", input |-> f, source |-> FilePath(dir, f.name),
     output |-> output_path, mode |-> mode, overwrite |-> OverwriteFlag]

Issued(cmd, returncode) ==
    [source |-> cmd.source, output |-> cmd.output, mode |-> cmd.mode,
     returncode |-> returncode]

\* crop_video(input_path, output_path, max_duration): whether it succeeded,
\* the output tree it leaves, the durations it probed and the commands it
\* ran.  p is the outcome of its ffprobe run, t of its ffmpeg run.
crop_video(files, dirs, f, dir, output_path, max_duration, p, t, stamp) ==
    LET duration == get_video_duration(f, p)
        cmd      == Command(f, dir, output_path, ChooseMode(duration, max_duration))
        result   == RunFfmpeg(files, dirs, cmd, t, FALSE, stamp)
        raised   == /\ duration > max_duration
                    /\ \/ GetSizeRaises_input(f)
                       \/ GetSizeRaises_output(result.files, output_path)
                       \/ f.size = 0
    IN  IF duration = None
        THEN [success |-> FALSE, files |-> files,
              probed |-> <<duration>>, issued |-> <<>>]
        ELSE [success |-> result.returncode = 0 /\ ~raised,
              files   |-> result.files,
              probed  |-> <<duration>>,
              issued  |-> <<Issued(cmd, result.returncode)>>]

\* compress_video(input_path, output_path, crf)
compress_video(files, dirs, f, dir, output_path, t, grow, stamp) ==
    LET cmd    == Command(f, dir, output_path, "x264")
        result == RunFfmpeg(files, dirs, cmd, t, grow, stamp)
        raised == \/ GetSizeRaises_input(f)
                  \/ GetSizeRaises_output(result.files, output_path)
                  \/ f.size = 0
    IN  [success |-> result.returncode = 0 /\ ~raised,
         files   |-> result.files,
         issued  |-> <<Issued(cmd, result.returncode)>>]

(* ------------------------------------------------------------------ *)
(* The statistics of process_directory                                *)
(* ------------------------------------------------------------------ *)
\* "total_videos += 1" left out, a mutant
CountSeen_forgotten(n) == n

\* total_videos += 1
CountSeen(n) == n + 1

\* processed_videos += 1 (compressed_videos += 1 in the compression script)
CountSuccess(n) == n + 1

\* if duration > max_duration: cropped_videos += 1
CountCropped(n, duration, max_duration) ==
    IF duration > max_duration THEN n + 1 ELSE n

\* "saved_mb = new_size - original_size", the operands exchanged, a mutant
AddSaved_swapped(total, original_size, new_size) == total + (new_size - original_size)

\* saved_mb = original_size - new_size; total_saved_mb += saved_mb
AddSaved(total, original_size, new_size) == total + (original_size - new_size)

\* the test "if duration is None: continue" left out, a mutant
ProbeFailed_unchecked(duration) == FALSE

\* if duration is None: continue
ProbeFailed(duration) == duration = None

\* output_file = current_output_dir / file
OutputFile(dir, name) == FilePath(dir, name)

(* ------------------------------------------------------------------ *)
(* State                                                              *)
(* ------------------------------------------------------------------ *)
VARIABLES
    script,              \* which script runs: "compress" or "crop"
    tree,                \* the input tree: the files of each walked directory
    outDirs,             \* the directories of the output tree
    outFiles,            \* the files of the output tree
    pc,                  \* where each worker is in process_directory
    run,                 \* which run of process_directory a worker is in
    walked,              \* how many directories os.walk has yielded
    listed,              \* how many files of the directory the loop has taken
    current_output_dir,
    total_videos,
    processed_videos,    \* compressed_videos in the compression script
    cropped_videos,
    total_saved_mb,
    seen,                \* the matching files taken by the loop, in order
    succeeded,           \* those for which success was true
    probes,              \* every get_video_duration call: file and result
    cmds,                \* every ffmpeg command run, with its return code
    envlog,              \* what the tools did for each file of this run
    err,                 \* the exception that ended the run, if any
    prev                 \* what the first run left, once a second has begun

stats == <<total_videos, processed_videos, cropped_videos, total_saved_mb>>
logs  == <<seen, succeeded, probes, cmds, envlog>>
fsys  == <<outDirs, outFiles>>
input == <<script, tree>>
pos   == <<walked, listed, current_output_dir>>
vars  == <<input, fsys, pc, run, pos, stats, logs, err, prev>>

Fresh(ws) ==
    /\ outDirs = {}
    /\ outFiles = {}
    /\ pc = [w \in Workers |-> IF w \in ws THEN "start" ELSE "idle"]
    /\ run = [w \in Workers |-> 1]
    /\ walked = [w \in Workers |-> 0]
    /\ listed = [w \in Workers |-> 0]
    /\ current_output_dir = [w \in Workers |-> <<>>]
    /\ total_videos = [w \in Workers |-> 0]
    /\ processed_videos = [w \in Workers |-> 0]
    /\ cropped_videos = [w \in Workers |-> 0]
    /\ total_saved_mb = [w \in Workers |-> 0]
    /\ seen = [w \in Workers |-> <<>>]
    /\ succeeded = [w \in Workers |-> {}]
    /\ probes = [w \in Workers |-> <<>>]
    /\ cmds = [w \in Workers |-> <<>>]
    /\ envlog = [w \in Workers |-> <<>>]
    /\ err = [w \in Workers |-> "none"]
    /\ prev = <<>>

\* one process runs process_directory on an output tree that does not exist yet
Init ==
    /\ script \in {"compress", "crop"}
    /\ tree \in Trees(MaxFiles)
    /\ Fresh({1})

\* every worker runs process_directory on the same trees at once
InitConc ==
    /\ script \in {"compress", "crop"}
    /\ tree \in Trees(MaxConcFiles)
    /\ Fresh(Workers)

(* ------------------------------------------------------------------ *)
(* process_directory, one action per step                             *)
(* ------------------------------------------------------------------ *)
Set(f, w, v) == [f EXCEPT ![w] = v]

\* the directory os.walk is in, and the file the loop takes next
WalkedDir(w) == WalkDirs[walked[w]]
FilesOf(w)   == tree[walked[w]]
NextFile(w)  == FilesOf(w)[listed[w] + 1]

\* an exception nothing catches ends process_directory
Raise(w, exception) ==
    /\ pc' = Set(pc, w, "aborted")
    /\ err' = Set(err, w, exception)

\* Path.mkdir(parents=True): FileExistsError when the directory is there
Mkdir(w, dir, next) ==
    IF dir \in outDirs
    THEN /\ Raise(w, "FileExistsError")
         /\ UNCHANGED outDirs
    ELSE /\ outDirs' = outDirs \cup WithParents(dir)
         /\ pc' = Set(pc, w, next)
         /\ UNCHANGED err

\* if not output_dir_path.exists():
CheckRoot(w) ==
    /\ pc[w] = "start"
    /\ pc' = Set(pc, w, IF <<>> \in outDirs THEN "walk" ELSE "mkroot")
    /\ UNCHANGED <<input, fsys, run, pos, stats, logs, err, prev>>

\* output_dir_path.mkdir(parents=True)
MkRoot(w) ==
    /\ pc[w] = "mkroot"
    /\ Mkdir(w, <<>>, "walk")
    /\ UNCHANGED <<input, outFiles, run, pos, stats, logs, prev>>

\* for root, dirs, files in os.walk(base_dir): the next directory, its
\* rel_path, its current_output_dir and the test whether that exists; the
\* summary follows the last directory
Walk(w) ==
    /\ pc[w] = "walk"
    /\ IF walked[w] < NumDirs
       THEN LET rel_path == RelPath(WalkDirs[walked[w] + 1])
                out      == OutputDirOf(rel_path)
            IN  /\ walked' = Set(walked, w, walked[w] + 1)
                /\ listed' = Set(listed, w, 0)
                /\ current_output_dir' = Set(current_output_dir, w, out)
                /\ pc' = Set(pc, w, IF rel_path # Dot /\ out \notin outDirs
                                    THEN "mkdir" ELSE "files")
       ELSE /\ pc' = Set(pc, w, "summary")
            /\ UNCHANGED pos
    /\ UNCHANGED <<input, fsys, run, stats, logs, err, prev>>

\* the mirrored directory is not created, a mutant
MkDir_skipped(w) ==
    /\ pc[w] = "mkdir"
    /\ pc' = Set(pc, w, "files")
    /\ UNCHANGED <<input, fsys, run, pos, stats, logs, err, prev>>

\* current_output_dir.mkdir(parents=True)
MkDir(w) ==
    /\ pc[w] = "mkdir"
    /\ Mkdir(w, current_output_dir[w], "files")
    /\ UNCHANGED <<input, outFiles, run, pos, stats, logs, prev>>

\* a file whose name matches no extension is passed over
SkipFile(w) ==
    /\ pc[w] = "files"
    /\ listed[w] < Len(FilesOf(w))
    /\ ~IsVideo(NextFile(w).name)
    /\ listed' = Set(listed, w, listed[w] + 1)
    /\ UNCHANGED <<input, fsys, pc, run, walked, current_output_dir, stats, logs,
                   err, prev>>

\* the loop is through with the files of the directory
EndOfDir(w) ==
    /\ pc[w] = "files"
    /\ listed[w] = Len(FilesOf(w))
    /\ pc' = Set(pc, w, "walk")
    /\ UNCHANGED <<input, fsys, run, pos, stats, logs, err, prev>>

\* one matching file in the cropping script: probe, crop_video, statistics
CropFile(w) ==
    /\ pc[w] = "files"
    /\ script = "crop"
    /\ listed[w] < Len(FilesOf(w))
    /\ IsVideo(NextFile(w).name)
    /\ \E p1 \in ProbeOutcomes(NextFile(w)), p2 \in ProbeOutcomes(NextFile(w)),
          t \in ToolOutcomes :
        LET f           == NextFile(w)
            input_file  == FilePath(WalkedDir(w), f.name)
            output_file == OutputFile(current_output_dir[w], f.name)
            duration    == get_video_duration(f, p1)
            called      == ~ProbeFailed(duration)
            r           == crop_video(outFiles, outDirs, f, WalkedDir(w), output_file,
                                      MAX_DURATION, p2, t, <<w, run[w]>>)
            success     == called /\ r.success
            probed      == <<duration>> \o (IF called THEN r.probed ELSE <<>>)
            issued      == IF called THEN r.issued ELSE <<>>
        IN  /\ total_videos' = Set(total_videos, w, CountSeen(total_videos[w]))
            /\ seen' = Set(seen, w, Append(seen[w], input_file))
            /\ probes' = Set(probes, w, probes[w] \o
                    [i \in DOMAIN probed |-> [file |-> input_file, duration |-> probed[i]]])
            /\ cmds' = Set(cmds, w, cmds[w] \o issued)
            /\ envlog' = Set(envlog, w, Append(envlog[w],
                    [file |-> input_file, p1 |-> Verdict(p1),
                     p2 |-> IF called THEN Verdict(p2) ELSE "-",
                     t  |-> IF issued # <<>> THEN t ELSE "-",
                     grow |-> "-"]))
            /\ outFiles' = IF called THEN r.files ELSE outFiles
            /\ succeeded' = Set(succeeded, w,
                    IF success THEN succeeded[w] \cup {input_file} ELSE succeeded[w])
            /\ processed_videos' = Set(processed_videos, w,
                    IF success THEN CountSuccess(processed_videos[w])
                    ELSE processed_videos[w])
            /\ cropped_videos' = Set(cropped_videos, w,
                    IF success
                    THEN CountCropped(cropped_videos[w], duration, MAX_DURATION)
                    ELSE cropped_videos[w])
    /\ listed' = Set(listed, w, listed[w] + 1)
    /\ UNCHANGED <<input, outDirs, pc, run, walked, current_output_dir, total_saved_mb,
                   err, prev>>

\* one matching file in the compression script: original size,
\* compress_video, statistics.  The two os.path.getsize calls of the loop
\* are outside every try.
CompressFile(w) ==
    /\ pc[w] = "files"
    /\ script = "compress"
    /\ listed[w] < Len(FilesOf(w))
    /\ IsVideo(NextFile(w).name)
    /\ \E t \in ToolOutcomes, grow \in BOOLEAN :
        LET f           == NextFile(w)
            input_file  == FilePath(WalkedDir(w), f.name)
            output_file == OutputFile(current_output_dir[w], f.name)
            r           == compress_video(outFiles, outDirs, f, WalkedDir(w),
                                          output_file, t, grow, <<w, run[w]>>)
        IN  /\ total_videos' = Set(total_videos, w, CountSeen(total_videos[w]))
            /\ seen' = Set(seen, w, Append(seen[w], input_file))
            /\ IF GetSizeRaises_input(f)
               THEN /\ Raise(w, "OSError")
                    /\ envlog' = Set(envlog, w, Append(envlog[w],
                            [file |-> input_file, p1 |-> "-", p2 |-> "-", t |-> "-",
                             grow |-> "-"]))
                    /\ UNCHANGED <<outFiles, cmds, succeeded, processed_videos,
                                   total_saved_mb>>
               ELSE /\ outFiles' = r.files
                    /\ cmds' = Set(cmds, w, cmds[w] \o r.issued)
                    /\ envlog' = Set(envlog, w, Append(envlog[w],
                            [file |-> input_file, p1 |-> "-", p2 |-> "-", t |-> t,
                             grow |-> IF t # "ok" THEN "-"
                                      ELSE IF grow THEN "grow" ELSE "shrink"]))
                    /\ succeeded' = Set(succeeded, w,
                            IF r.success THEN succeeded[w] \cup {input_file}
                            ELSE succeeded[w])
                    /\ processed_videos' = Set(processed_videos, w,
                            IF r.success THEN CountSuccess(processed_videos[w])
                            ELSE processed_videos[w])
                    /\ IF r.success /\ GetSizeRaises_output(r.files, output_file)
                       THEN /\ Raise(w, "OSError")
                            /\ UNCHANGED total_saved_mb
                       ELSE /\ total_saved_mb' = Set(total_saved_mb, w,
                                    IF r.success
                                    THEN AddSaved(total_saved_mb[w], f.size,
                                                  Entry(r.files, output_file).size)
                                    ELSE total_saved_mb[w])
                            /\ UNCHANGED <<pc, err>>
    /\ listed' = Set(listed, w, listed[w] + 1)
    /\ UNCHANGED <<input, outDirs, run, walked, current_output_dir, cropped_videos,
                   probes, prev>>

\* the summary is logged and process_directory returns
Summary(w) ==
    /\ pc[w] = "summary"
    /\ pc' = Set(pc, w, "done")
    /\ UNCHANGED <<input, fsys, run, pos, stats, logs, err, prev>>

\* the script is started a second time on the same input tree, with the same
\* configuration, and finds the output tree the first run left
Rerun(w) ==
    /\ pc[w] \in {"done", "aborted"}
    /\ run[w] = 1
    /\ prev = <<>>
    /\ NumFiles(tree) <= MaxRerunFiles
    /\ prev' = <<[files |-> outFiles, dirs |-> outDirs, envlog |-> envlog[w],
                  pc |-> pc[w], processed_videos |-> processed_videos[w]]>>
    /\ run' = Set(run, w, 2)
    /\ pc' = Set(pc, w, "start")
    /\ err' = Set(err, w, "none")
    /\ walked' = Set(walked, w, 0)
    /\ listed' = Set(listed, w, 0)
    /\ current_output_dir' = Set(current_output_dir, w, <<>>)
    /\ total_videos' = Set(total_videos, w, 0)
    /\ processed_videos' = Set(processed_videos, w, 0)
    /\ cropped_videos' = Set(cropped_videos, w, 0)
    /\ total_saved_mb' = Set(total_saved_mb, w, 0)
    /\ seen' = Set(seen, w, <<>>)
    /\ succeeded' = Set(succeeded, w, {})
    /\ probes' = Set(probes, w, <<>>)
    /\ cmds' = Set(cmds, w, <<>>)
    /\ envlog' = Set(envlog, w, <<>>)
    /\ UNCHANGED <<input, fsys>>

Step(w) ==
    \/ CheckRoot(w)
    \/ MkRoot(w)
    \/ Walk(w)
    \/ MkDir(w)
    \/ SkipFile(w)
    \/ CropFile(w)
    \/ CompressFile(w)
    \/ EndOfDir(w)
    \/ Summary(w)

Next == \E w \in Workers : Step(w) \/ Rerun(w)

NextConc == \E w \in Workers : Step(w)

\* one process, run once or twice in a row
Spec == Init /\ [][Next]_vars

\* two processes at once
SpecConc == InitConc /\ [][NextConc]_vars

(* ------------------------------------------------------------------ *)
(* What the properties speak of                                       *)
(* ------------------------------------------------------------------ *)
Range(q) == { q[i] : i \in DOMAIN q }

Last(q) == q[Len(q)]

\* a name with a recognized extension as suffix, letter case apart
Recognized(name) ==
    \E x \in Range(video_extensions) :
        /\ Len(name) >= Len(x)
        /\ \A i \in 1..Len(x) : LowerChar(name[Len(name) - Len(x) + i]) = x[i]

\* the input files with a recognized name, as paths and in walk order
MatchingIn(d) ==
    LET keep == SelectSeq(tree[d], LAMBDA f : Recognized(f.name))
    IN  [i \in DOMAIN keep |-> FilePath(WalkDirs[d], keep[i].name)]

MatchingSeq == MatchingIn(1) \o MatchingIn(2) \o MatchingIn(3)

MatchingPaths == Range(MatchingSeq)

\* the input file at a path
FileAt(path) ==
    LET d == CHOOSE n \in DOMAIN WalkDirs : WalkDirs[n] = path.dir
    IN  tree[d][CHOOSE i \in DOMAIN tree[d] : tree[d][i].name = path.name]

OutPaths == { e.path : e \in outFiles }

Finished(w) == pc[w] \in {"done", "aborted"}

ProbesOf(w, path) == { i \in DOMAIN probes[w] : probes[w][i].file = path }

CmdsFor(w, path) == { i \in DOMAIN cmds[w] : cmds[w][i].source = path }

\* every probe and every tool invocation of the run so far succeeded
AllSucceeded(w) ==
    /\ \A i \in DOMAIN probes[w] : probes[w][i].duration # None
    /\ \A i \in DOMAIN cmds[w] : cmds[w][i].returncode = 0

(* ------------------------------------------------------------------ *)
(* Properties                                                         *)
(* ------------------------------------------------------------------ *)

\* C1: at every moment of a run the counters agree with the files handled:
\* total_videos is the number of files seen, processed_videos the number of
\* those that succeeded, every file that succeeded was seen, no file is seen
\* twice, and successes plus the seen files that did not succeed make
\* total_videos.
C1_Accounting ==
    \A w \in Workers :
        /\ total_videos[w] = Len(seen[w])
        /\ Cardinality(Range(seen[w])) = Len(seen[w])
        /\ succeeded[w] \subseteq Range(seen[w])
        /\ processed_videos[w] = Cardinality(succeeded[w])
        /\ processed_videos[w] + Cardinality(Range(seen[w]) \ succeeded[w])
               = total_videos[w]

C1_Witness ==
    \E w \in Workers :
        /\ pc[w] = "done"
        /\ processed_videos[w] >= 1
        /\ total_videos[w] > processed_videos[w]

\* C2: no failure of one file ends the run: process_directory never stops on
\* an exception.
C2_NeverAborts == \A w \in Workers : pc[w] # "aborted"

\* C3 as stated: when a run on an absent output tree has finished, the files
\* of the output tree are exactly the input files with a recognized name, at
\* the same relative paths.
C3_ExactMirror ==
    \A w \in Workers : (pc[w] = "done" /\ run[w] = 1) => OutPaths = MatchingPaths

\* C3 as amended: every file of the output tree is an input file with a
\* recognized name at the same relative path, and the output tree holds all
\* of them, completely written, when the run has finished with every probe
\* and every tool invocation having succeeded.
C3_Mirror ==
    /\ OutPaths \subseteq MatchingPaths
    /\ \A w \in Workers :
        (pc[w] = "done" /\ AllSucceeded(w)) =>
            /\ OutPaths = MatchingPaths
            /\ \A e \in outFiles : e.whole

C3_Witness ==
    \E w \in Workers :
        /\ pc[w] = "done"
        /\ AllSucceeded(w)
        /\ Cardinality(OutPaths) = 2
        /\ NumFiles(tree) = 3
        /\ \E e \in outFiles : e.path.name # Lower(e.path.name)

\* C4: in the cropping script a file with a failed probe is seen and not
\* succeeded and no command is run for it; the run never stops on an
\* exception, and when it is done every matching file was probed and every
\* file whose probes succeeded had exactly one command run.
C4_ProbeFailure ==
    \A w \in Workers :
        script = "crop" =>
            /\ pc[w] # "aborted"
            /\ \A i \in DOMAIN probes[w] :
                probes[w][i].duration = None =>
                    /\ probes[w][i].file \in Range(seen[w])
                    /\ probes[w][i].file \notin succeeded[w]
                    /\ CmdsFor(w, probes[w][i].file) = {}
            /\ pc[w] = "done" =>
                /\ seen[w] = MatchingSeq
                /\ \A path \in MatchingPaths :
                    /\ ProbesOf(w, path) # {}
                    /\ (\A i \in ProbesOf(w, path) : probes[w][i].duration # None)
                           => Cardinality(CmdsFor(w, path)) = 1

C4_Witness ==
    \E w \in Workers :
        /\ script = "crop"
        /\ pc[w] = "done"
        /\ Len(seen[w]) = 3
        /\ \E i \in DOMAIN probes[w] :
            /\ probes[w][i].duration = None
            /\ probes[w][i].file = seen[w][1]
        /\ seen[w][2] \in succeeded[w]
        /\ seen[w][3] \in succeeded[w]

\* C5: a cropping run in which every probe and every tool invocation
\* succeeded has run, for every matching file, one command: a stream copy
\* when the duration is at most MAX_DURATION, a cut when it is greater; and
\* total = success = number of matching files, cropped = number of files
\* longer than MAX_DURATION.
C5_AllSucceed ==
    \A w \in Workers :
        (script = "crop" /\ pc[w] = "done" /\ AllSucceeded(w)) =>
            /\ \A path \in MatchingPaths :
                /\ Cardinality(CmdsFor(w, path)) = 1
                /\ \A i \in CmdsFor(w, path) :
                    cmds[w][i].mode =
                        IF FileAt(path).dur <= MAX_DURATION THEN "copy" ELSE "cut"
            /\ total_videos[w] = Cardinality(MatchingPaths)
            /\ processed_videos[w] = Cardinality(MatchingPaths)
            /\ cropped_videos[w] =
                   Cardinality({ path \in MatchingPaths :
                                    FileAt(path).dur > MAX_DURATION })

\* the scenario: A/1.mp4 (5 s), A/2.MP4 (12 s), B/3.mov (3 s)
C5_Witness ==
    \E w \in Workers :
        /\ script = "crop"
        /\ pc[w] = "done"
        /\ AllSucceeded(w)
        /\ tree = << <<>>, <<Catalogue[1], Catalogue[2]>>, <<Catalogue[3]>> >>
        /\ total_videos[w] = 3
        /\ processed_videos[w] = 3
        /\ cropped_videos[w] = 1

\* C6 as stated: when the second run has finished, the output tree is what
\* the first run left.
C6_SameTree ==
    \A w \in Workers :
        (run[w] = 2 /\ pc[w] = "done" /\ prev[1].pc = "done") =>
            Content(outFiles) = Content(prev[1].files)

\* C6 as amended: no existing directory is an error in the second run; and
\* when the tools did in the second run what they did in the first, the
\* second run ends as the first did, with the same successes, the output
\* tree is what the first run left, and every output a command wrote
\* successfully was written anew.
C6_Idempotent ==
    \A w \in Workers :
        run[w] = 2 =>
            /\ err[w] # "FileExistsError"
            /\ (Finished(w) /\ envlog[w] = prev[1].envlog) =>
                /\ pc[w] = prev[1].pc
                /\ processed_videos[w] = prev[1].processed_videos
                /\ outDirs = prev[1].dirs
                /\ Content(outFiles) = Content(prev[1].files)
                /\ \A i \in DOMAIN envlog[w] :
                    envlog[w][i].t = "ok" =>
                        \E e \in outFiles :
                            /\ e.path = envlog[w][i].file
                            /\ e.stamp = <<w, 2>>

C6_Witness ==
    \E w \in Workers :
        /\ run[w] = 2
        /\ pc[w] = "done"
        /\ envlog[w] = prev[1].envlog
        /\ \E e \in outFiles : e.stamp = <<w, 2>> /\ e.whole /\ e.path.dir # <<>>

\* C7: no worker gets an error because a directory already exists.
C7_NoFileExistsError == \A w \in Workers : err[w] # "FileExistsError"

\* C8 as stated: within a run no statistics field decreases from one step to
\* the next.
C8_Monotone ==
    [][\A w \in Workers :
        run'[w] = run[w] =>
            /\ total_videos'[w] >= total_videos[w]
            /\ processed_videos'[w] >= processed_videos[w]
            /\ cropped_videos'[w] >= cropped_videos[w]
            /\ total_saved_mb'[w] >= total_saved_mb[w]]_vars

\* C8 as amended: within a run the three counters never decrease, and
\* total_saved_mb decreases only in a step that wrote an output larger than
\* its input.
C8_MonotoneCounts ==
    [][\A w \in Workers :
        run'[w] = run[w] =>
            /\ total_videos'[w] >= total_videos[w]
            /\ processed_videos'[w] >= processed_videos[w]
            /\ cropped_videos'[w] >= cropped_videos[w]
            /\ total_saved_mb'[w] < total_saved_mb[w] =>
                /\ Len(cmds'[w]) = Len(cmds[w]) + 1
                /\ Entry(outFiles', Last(cmds'[w]).output).size
                       > FileAt(Last(cmds'[w]).source).size]_vars

C8_Witness ==
    \E w \in Workers :
        /\ processed_videos[w] >= 2
        /\ total_saved_mb[w] < 0

\* C9: whenever a command is run for a file, the output directory it writes
\* to exists already and is the mirror of the file's directory.
C9_DirFirst ==
    [][\A w \in Workers :
        Len(cmds'[w]) > Len(cmds[w]) =>
            /\ Last(cmds'[w]).output.dir \in outDirs
            /\ Last(cmds'[w]).output.dir = Last(cmds'[w]).source.dir]_vars

C9_Witness ==
    \E w \in Workers :
        /\ run[w] = 1
        /\ cmds[w] # <<>>
        /\ Last(cmds[w]).output.dir # <<>>
        /\ Last(cmds[w]).returncode = 0

\* C10: when a cropping run is done, each file seen was probed exactly once,
\* and cropped_videos is the number of outputs the cut command produced.
C10_ProbedOnce ==
    \A w \in Workers :
        (script = "crop" /\ pc[w] = "done") =>
            /\ \A path \in Range(seen[w]) : Cardinality(ProbesOf(w, path)) = 1
            /\ cropped_videos[w] =
                   Cardinality({ i \in DOMAIN cmds[w] :
                                    cmds[w][i].mode = "cut" /\ cmds[w][i].returncode = 0 })

====
